---- MODULE Spec2Model ----
(***************************************************************************)
(* A model of the document chunker (src/src/chunking/chunker.py) and of    *)
(* the RAG extraction engine (src/src/rag/extraction_engine.py).           *)
(*                                                                         *)
(* Strings are sequences of one-character strings.  Numbers that Python    *)
(* holds as floats are held in hundredths (0.3 is 30, 12.5 is 1250).       *)
(***************************************************************************)
EXTENDS Integers, Sequences, FiniteSets, TLC

VARIABLES
    \* ---- extract_features / extract_single_feature ----
    pc,                 \* where extract_features is
    doc_exists,         \* the answer of vector_store.document_exists(doc_id)
    feature_schema,     \* the ordered schema: a sequence of feature definitions
    threshold,          \* config.confidence_threshold, in hundredths
    idx,                \* index in feature_schema of the feature the for loop is at
    features,           \* the dict being built: insertion-ordered <<name, FeatureValue>> entries
    search_results,     \* what search returned for the current feature
    attempt,            \* tenacity's attempt number for the current _generate_extraction call
    gen_log,            \* the outcomes of the generator invocations of the latest extract_single_feature call
    search_calls,       \* number of vector_store.search calls made
    search_exc,         \* the exception the latest search call raised, or "none"
    feature_exc,        \* the exception the latest extract_single_feature call raised, or "none"
    response,           \* the raw response last handed to _parse_extraction_response
    data_type,          \* the data_type of the feature that response was parsed for
    parsed,             \* what that _parse_extraction_response call did
    result,             \* what extract_features returned or raised
    retrieved,          \* the chunks the latest search call returned
    answers,            \* per feature name, the fixed answers of the collaborators (scripted runs)
    first_features,     \* the features of the first of two scripted runs
    run,                \* which of the two scripted runs this is
    \* ---- chunk_document ----
    cpc,                \* where chunk_document is
    input_text,         \* the text argument as the caller passed it
    chunk_config,       \* the ChunkConfig in force
    text,               \* the local text (stripped), or the text _chunk_by_character was given
    sentences,          \* the sentences of text
    sentence_start_positions,
    current_chunk_sentences,
    current_chunk_length,
    i,                  \* index (from 0) of the next sentence to consume
    chunk_index,
    start,              \* _chunk_by_character's window start (from 0)
    config_exc,         \* the exception ChunkConfig(...) raised, or "none"
    emitted,            \* per chunk of the packing loop: current_chunk_sentences and i at its append
    call_ids,           \* per chunk_document call, the chunk_ids it generated so far
    chunks,             \* the list of chunks built so far, then returned
    \* ---- the vector store ----
    collection,         \* the records of the ChromaDB collection
    store_before,       \* the collection as it was before the latest call
    store_call          \* the latest call on the store: its arguments and what it did

engineVars == <<pc, doc_exists, feature_schema, threshold, idx, features, search_results,
                attempt, gen_log, search_calls, search_exc, feature_exc, response,
                data_type, parsed, result, retrieved, answers, first_features, run>>

chunkVars == <<cpc, input_text, chunk_config, text, sentences, sentence_start_positions,
               current_chunk_sentences, current_chunk_length, i, chunk_index, start, chunks,
               config_exc, call_ids, emitted>>

storeVars == <<collection, store_before, store_call>>

vars == <<engineVars, chunkVars, storeVars>>

(***************************************************************************)
(* Python values.  k is the type, s the characters of a str, n the number  *)
(* of an int, or the hundredths of a float.                                *)
(***************************************************************************)
PyNone == [k |-> "none", s |-> <<>>, n |-> 0]
PyStr(s) == [k |-> "str", s |-> s, n |-> 0]
PyInt(n) == [k |-> "int", s |-> <<>>, n |-> n]
PyFloat(h) == [k |-> "float", s |-> <<>>, n |-> h]
\* a JSON array: a Python list (its elements are not modelled)
PyList == [k |-> "list", s |-> <<>>, n |-> 0]
\* what dict.get finds when the key is missing
Absent == [k |-> "absent", s |-> <<>>, n |-> 0]

\* the outcome of evaluating a Python expression: a value or an exception
Ret(v) == [exc |-> "none", val |-> v]
Raise(e) == [exc |-> e, val |-> PyNone]

Whitespace == {" ", "\n"}
DigitChars == {"0", "1", "2", "5"}

DigitVal(c) == CASE c = "0" -> 0 [] c = "1" -> 1 [] c = "2" -> 2 [] c = "5" -> 5

DigitChar(d) == CASE d = 0 -> "0" [] d = 1 -> "1" [] d = 2 -> "2" [] d = 3 -> "3"
                  [] d = 4 -> "4" [] d = 5 -> "5" [] d = 6 -> "6" [] d = 7 -> "7"
                  [] d = 8 -> "8" [] d = 9 -> "9"

\* the first index at or after j, and the last at or before j, that holds no whitespace
RECURSIVE FirstNonWs(_, _)
FirstNonWs(s, j) == IF j <= Len(s) /\ s[j] \in Whitespace THEN FirstNonWs(s, j + 1) ELSE j

RECURSIVE LastNonWs(_, _)
LastNonWs(s, j) == IF j >= 1 /\ s[j] \in Whitespace THEN LastNonWs(s, j - 1) ELSE j

\* str.strip(): the characters between the first and the last non-whitespace one
Strip(s) == SubSeq(s, FirstNonWs(s, 1), LastNonWs(s, Len(s)))

IsDigits(s) == Len(s) >= 1 /\ \A j \in 1..Len(s) : s[j] \in DigitChars

RECURSIVE DigitsVal(_)
DigitsVal(s) ==
    IF s = <<>> THEN 0
    ELSE 10 * DigitsVal(SubSeq(s, 1, Len(s) - 1)) + DigitVal(s[Len(s)])

\* the sign and the unsigned rest of a numeric literal
Signed(s) == IF Len(s) >= 1 /\ s[1] \in {"-", "+"}
             THEN [neg |-> s[1] = "-", body |-> Tail(s)]
             ELSE [neg |-> FALSE, body |-> s]

\* int(s) for a str s: surrounding whitespace, an optional sign, decimal digits
IntOfSigned(neg, b) ==
    IF IsDigits(b) THEN Ret(PyInt(IF neg THEN 0 - DigitsVal(b) ELSE DigitsVal(b)))
    ELSE Raise("ValueError")

IntOfStr(s) == IntOfSigned(Signed(Strip(s)).neg, Signed(Strip(s)).body)

\* the hundredths denoted by the fraction digits f (at most two of them)
FracHundredths(f) ==
    IF Len(f) = 0 THEN 0
    ELSE IF Len(f) = 1 THEN 10 * DigitVal(f[1])
    ELSE 10 * DigitVal(f[1]) + DigitVal(f[2])

\* float(s) for a str s: whitespace, sign, digits with an optional fraction
\* the index of the first "." at or after j, or Len(b) + 1 when there is none
RECURSIVE DotFrom(_, _)
DotFrom(b, j) == IF j <= Len(b) /\ b[j] # "." THEN DotFrom(b, j + 1) ELSE j

Hundredths(whole, frac) == 100 * DigitsVal(whole) + FracHundredths(frac)

FloatOfParts(neg, whole, frac) ==
    IF /\ \A j \in 1..Len(whole) : whole[j] \in DigitChars
       /\ \A j \in 1..Len(frac) : frac[j] \in DigitChars
       /\ Len(whole) + Len(frac) >= 1
    THEN Ret(PyFloat(IF neg THEN 0 - Hundredths(whole, frac) ELSE Hundredths(whole, frac)))
    ELSE Raise("ValueError")

FloatOfSigned(neg, b, dot) == FloatOfParts(neg, SubSeq(b, 1, dot - 1), SubSeq(b, dot + 1, Len(b)))

FloatOfStr(s) ==
    FloatOfSigned(Signed(Strip(s)).neg, Signed(Strip(s)).body, DotFrom(Signed(Strip(s)).body, 1))

RECURSIVE NatToStr(_)
NatToStr(n) == IF n < 10 THEN <<DigitChar(n)>>
               ELSE NatToStr(n \div 10) \o <<DigitChar(n % 10)>>

IntToStr(n) == IF n < 0 THEN <<"-">> \o NatToStr(0 - n) ELSE NatToStr(n)

\* repr of a float held in hundredths: 12.5, 12.0, 0.25
FracToStr(f) == IF f % 10 = 0 THEN <<DigitChar(f \div 10)>>
                ELSE <<DigitChar(f \div 10), DigitChar(f % 10)>>

FloatToStr(h) ==
    IF h < 0 THEN <<"-">> \o NatToStr((0 - h) \div 100) \o <<".">> \o FracToStr((0 - h) % 100)
    ELSE NatToStr(h \div 100) \o <<".">> \o FracToStr(h % 100)

\* str(value)
StrOf(v) == CASE v.k = "str" -> v.s
              [] v.k = "int" -> IntToStr(v.n)
              [] v.k = "float" -> FloatToStr(v.n)
              [] v.k = "list" -> <<"[", "]">>
              [] OTHER -> <<"N", "o", "n", "e">>

\* str.replace(",", "")
RECURSIVE RemoveCommas(_)
RemoveCommas(s) ==
    IF s = <<>> THEN <<>>
    ELSE (IF Head(s) = "," THEN <<>> ELSE <<Head(s)>>) \o RemoveCommas(Tail(s))

\* int(value) for any value
IntOf(v) == CASE v.k = "str" -> IntOfStr(v.s)
              [] v.k = "int" -> Ret(v)
              [] v.k = "float" -> Ret(PyInt(IF v.n >= 0 THEN v.n \div 100
                                            ELSE 0 - ((0 - v.n) \div 100)))
              [] OTHER -> Raise("TypeError")

\* float(value) for any value
FloatOf(v) == CASE v.k = "str" -> FloatOfStr(v.s)
                [] v.k = "int" -> Ret(PyFloat(100 * v.n))
                [] v.k = "float" -> Ret(v)
                [] OTHER -> Raise("TypeError")

DataTypes == {"string", "number", "currency", "date"}

\* the body of the try block of _convert_value_type
\* lines 425-430: int(value), and float(value) when int raised ValueError
IntElseFloat(v, asInt) == IF asInt.exc = "ValueError" THEN FloatOf(v) ELSE asInt

ConvertNumber(v) == [v |-> v, out |-> IntElseFloat(v, IntOf(v))]

ConvertTry(value, dtype) ==
    IF dtype = "number"
    THEN ConvertNumber(IF value.k = "str" THEN PyStr(RemoveCommas(value.s)) ELSE value)
    ELSE IF dtype \in {"string", "currency", "date"}
    THEN [v |-> value, out |-> Ret(PyStr(StrOf(value)))]
    ELSE [v |-> value, out |-> Ret(value)]

\* _convert_value_type(value, data_type)
ConvertExcept(t) ==
    IF t.out.exc \in {"ValueError", "TypeError"} THEN Ret(PyStr(StrOf(t.v))) ELSE t.out

ConvertValueType(value, dtype) ==
    IF value.k = "none" THEN Ret(PyNone) ELSE ConvertExcept(ConvertTry(value, dtype))

(***************************************************************************)
(* Raw generator responses.  A response is a sequence of tokens: the       *)
(* Markdown fence ```, the word json, whitespace, the braces of a JSON     *)
(* object, the members of an object (its "value" and "confidence"), a JSON *)
(* text that is not an object (atom), and any other text.                  *)
(***************************************************************************)
Tok(t) == [t |-> t, value |-> Absent, confidence |-> Absent]
Fence == Tok("fence")
JsonWord == Tok("json")
Ws == Tok("ws")
LBrace == Tok("lbrace")
RBrace == Tok("rbrace")
Text == Tok("text")
Members(v, c) == [t |-> "members", value |-> v, confidence |-> c]
Atom(v) == [t |-> "atom", value |-> v, confidence |-> Absent]

\* the JSON text {"value": v, "confidence": c}; an absent member is left out
ObjectText(v, c) == <<LBrace, Members(v, c), RBrace>>

\* the members of an object whose "value" is a str that holds a } followed by
\* a ```: the characters before that }, and the characters after that ```
MembersHead(v, c) == [t |-> "members_head", value |-> v, confidence |-> c]
MembersTail == Tok("members_tail")

\* the JSON text {"value": "...}```...", "confidence": c}, as re.search sees it
QuotingObjectText(v, c) == <<LBrace, MembersHead(v, c), RBrace, Fence, MembersTail, RBrace>>

\* str.strip() on a response
StripTokens(r) ==
    LET keep == {j \in 1..Len(r) : r[j].t # "ws"}
    IN  IF keep = {} THEN <<>>
        ELSE LET lo == CHOOSE j \in keep : \A m \in keep : j <= m
                 hi == CHOOSE j \in keep : \A m \in keep : j >= m
             IN  SubSeq(r, lo, hi)

\* the index of the first token at or after j that is not whitespace
RECURSIVE SkipWs(_, _)
SkipWs(r, j) == IF j <= Len(r) /\ r[j].t = "ws" THEN SkipWs(r, j + 1) ELSE j

\* re.search(r"```(?:json)?\s*(\{.*?\})\s*```", response, re.DOTALL):
\* the <<first, last>> token indexes of group 1 for a match that starts at
\* the fence at p, or <<>> when nothing matches there
MatchAt(r, p) ==
    LET afterWord(withWord) == IF withWord THEN p + 2 ELSE p + 1
        open(withWord) == SkipWs(r, afterWord(withWord))
        opens(withWord) ==
            /\ withWord => (p + 1 <= Len(r) /\ r[p + 1].t = "json")
            /\ open(withWord) <= Len(r)
            /\ r[open(withWord)].t = "lbrace"
        closes(o) == {e \in (o + 1)..Len(r) :
                        /\ r[e].t = "rbrace"
                        /\ SkipWs(r, e + 1) <= Len(r)
                        /\ r[SkipWs(r, e + 1)].t = "fence"}
        try(withWord) ==
            IF opens(withWord) /\ closes(open(withWord)) # {}
            THEN LET o == open(withWord)
                     e == CHOOSE x \in closes(o) : \A y \in closes(o) : x <= y
                 IN  <<o, e>>
            ELSE <<>>
    IN  IF r[p].t # "fence" THEN <<>>
        ELSE IF try(TRUE) # <<>> THEN try(TRUE) ELSE try(FALSE)

FenceSearch(r) ==
    LET starts == {p \in 1..Len(r) : MatchAt(r, p) # <<>>}
    IN  IF starts = {} THEN <<>>
        ELSE MatchAt(r, CHOOSE p \in starts : \A q \in starts : p <= q)

\* response.replace("```json", "").replace("```", "")
RECURSIVE RemoveFences(_)
RemoveFences(r) ==
    IF r = <<>> THEN <<>>
    ELSE IF Head(r).t = "fence" /\ Len(r) >= 2 /\ r[2].t = "json"
    THEN RemoveFences(Tail(Tail(r)))
    ELSE IF Head(r).t = "fence" THEN RemoveFences(Tail(r))
    ELSE <<Head(r)>> \o RemoveFences(Tail(r))

\* lines 370-378: strip, then take the JSON out of a Markdown code block
Unfence(resp) ==
    LET r == StripTokens(resp)
    IN  IF r # <<>> /\ r[1].t = "fence"
        THEN LET m == FenceSearch(r)
             IN  IF m # <<>> THEN SubSeq(r, m[1], m[2])
                 ELSE StripTokens(RemoveFences(r))
        ELSE r

\* json.loads(text): a dict, another JSON value, or JSONDecodeError
JsonLoads(json) ==
    LET t == SelectSeq(json, LAMBDA x : x.t # "ws")
    IN  IF Len(t) = 3 /\ t[1].t = "lbrace" /\ t[2].t = "members" /\ t[3].t = "rbrace"
        THEN [exc |-> "none", isdict |-> TRUE,
              value |-> t[2].value, confidence |-> t[2].confidence]
        ELSE IF Len(t) = 2 /\ t[1].t = "lbrace" /\ t[2].t = "rbrace"
        THEN [exc |-> "none", isdict |-> TRUE, value |-> Absent, confidence |-> Absent]
        ELSE IF Len(t) = 6 /\ t[1].t = "lbrace" /\ t[2].t = "members_head"
                /\ t[3].t = "rbrace" /\ t[4].t = "fence" /\ t[5].t = "members_tail"
                /\ t[6].t = "rbrace"
        THEN [exc |-> "none", isdict |-> TRUE,
              value |-> t[2].value, confidence |-> t[2].confidence]
        ELSE IF Len(t) = 1 /\ t[1].t = "atom"
        THEN [exc |-> "none", isdict |-> FALSE, value |-> t[1].value, confidence |-> Absent]
        ELSE [exc |-> "JSONDecodeError", isdict |-> FALSE,
              value |-> Absent, confidence |-> Absent]

\* dict.get(key) and dict.get(key, default)
DictGet(member, default) == IF member.k = "absent" THEN default ELSE member

\* the clamp without its min(1.0, ...)
ClampFromBelow(c) == IF c < 0 THEN 0 ELSE c

\* max(0.0, min(1.0, confidence)), in hundredths
Clamp(c) == IF c > 100 THEN 100 ELSE IF c < 0 THEN 0 ELSE c

\* the exceptions the except clause of _parse_extraction_response names;
\* json.JSONDecodeError is a ValueError
ParseCaught(e) == e \in {"JSONDecodeError", "ValueError", "KeyError"}

\* what a call returns: (value, confidence), or the exception it raises
Returns(v, c) == [exc |-> "none", value |-> v, confidence |-> c]
Raises(e) == [exc |-> e, value |-> PyNone, confidence |-> 0]

\* the converted value with its confidence, or the exception the conversion raised
Converted(conv, confidence) ==
    IF conv.exc = "none" THEN Returns(conv.val, confidence) ELSE Raises(conv.exc)

\* ApplyThreshold with a threshold of 0.5, whatever config.confidence_threshold is
ApplyThresholdFixed(value, confidence, dtype, thr) ==
    IF confidence < 50 THEN Returns(PyNone, confidence)
    ELSE IF value.k # "none" THEN Converted(ConvertValueType(value, dtype), confidence)
    ELSE Returns(value, confidence)

\* ApplyThreshold with the confidence of a discarded value reset to 0.0
ApplyThresholdResets(value, confidence, dtype, thr) ==
    IF confidence < thr THEN Returns(PyNone, 0)
    ELSE IF value.k # "none" THEN Converted(ConvertValueType(value, dtype), confidence)
    ELSE Returns(value, confidence)

\* lines 389-396: the threshold, then the conversion
ApplyThreshold(value, confidence, dtype, thr) ==
    IF confidence < thr THEN Returns(PyNone, confidence)
    ELSE IF value.k # "none" THEN Converted(ConvertValueType(value, dtype), confidence)
    ELSE Returns(value, confidence)

\* the body of the try block of _parse_extraction_response
\* lines 386-396: clamp the confidence float() gave, then threshold and convert
ParseMembers(value, conf, dtype, thr) ==
    IF conf.exc # "none" THEN Raises(conf.exc)
    ELSE ApplyThreshold(value, Clamp(conf.val.n), dtype, thr)

\* lines 382-396: read "value" and "confidence" off what json.loads returned
ParseData(data, dtype, thr) ==
    IF data.exc # "none" THEN Raises(data.exc)
    ELSE IF ~data.isdict THEN Raises("AttributeError")
    ELSE ParseMembers(DictGet(data.value, PyNone),
                      FloatOf(DictGet(data.confidence, PyFloat(0))), dtype, thr)

ParseTry(resp, dtype, thr) == ParseData(JsonLoads(Unfence(resp)), dtype, thr)

\* _parse_extraction_response(response, feature)
ParseExcept(t) == IF t.exc # "none" /\ ParseCaught(t.exc) THEN Returns(PyNone, 0) ELSE t

ParseExtractionResponse(resp, dtype, thr) == ParseExcept(ParseTry(resp, dtype, thr))

(***************************************************************************)
(* extract_features and extract_single_feature                             *)
(***************************************************************************)
MaxFeatures == 2
MaxAttempts == 3

FeatureNames == {"owner_name", "sale_price", "lot_size"}

\* the FeatureDefinition of a name (name and data_type are what the engine reads
\* to decide a FeatureValue)
FeatureDefinition(name) ==
    [name |-> name,
     data_type |-> CASE name = "owner_name" -> "string"
                     [] name = "sale_price" -> "currency"
                     [] name = "lot_size" -> "number"]

\* a feature schema is a dict: its keys are distinct and keep their order
Schemas ==
    {sch \in UNION {[1..n -> {FeatureDefinition(x) : x \in FeatureNames}] : n \in 0..MaxFeatures} :
        \A a, b \in DOMAIN sch : a # b => sch[a].name # sch[b].name}

Thresholds == {0, 50, 100}

FeatureValue(v, c, texts, pages) ==
    [value |-> v, confidence |-> c, source_chunks |-> texts, source_pages |-> pages]

\* FeatureValue(value=None, confidence=0.0, source_chunks=[], source_pages=[])
NullFeatureValue == FeatureValue(PyNone, 0, <<>>, <<>>)

RetrievedChunk(t, page) == [text |-> t, page_number |-> page]

\* what vector_store.search can do: raise, or return the chunks in relevance order
SearchOutcomes ==
    { [exc |-> "VectorStoreError", chunks |-> <<>>],
      [exc |-> "none", chunks |-> <<>>],
      [exc |-> "none", chunks |-> <<RetrievedChunk("c1", 2), RetrievedChunk("c2", 1), RetrievedChunk("c3", 2)>>],
      [exc |-> "none", chunks |-> <<RetrievedChunk("c2", 1)>>] }

\* the characters of some values a generator puts in "value"
Name == <<"x", "y">>
Grouped == <<"1", ",", "2", "5", "0">>

\* raw responses the generator returns to the engine
Responses ==
    { ObjectText(PyStr(Name), PyFloat(95)),
      ObjectText(PyStr(Name), PyFloat(30)),
      ObjectText(PyStr(Grouped), PyFloat(50)),
      ObjectText(PyNone, PyFloat(0)),
      ObjectText(PyStr(Name), PyNone),
      ObjectText(PyStr(Name), PyFloat(0 - 20)),
      <<Fence, JsonWord, Ws>> \o ObjectText(PyStr(Name), PyFloat(150)) \o <<Ws, Fence>>,
      <<Atom(PyList)>>,
      <<Text, Ws, Text>> }

\* what one invocation of the generator (_call_openai / _call_anthropic) can do
GenOutcomes ==
    { [kind |-> "transient", resp |-> <<>>], [kind |-> "permanent", resp |-> <<>>] }
    \cup { [kind |-> "response", resp |-> r] : r \in Responses }

\* sorted(list(set(chunk.page_number for chunk in chunks)))
RECURSIVE SortedList(_)
SortedList(S) ==
    IF S = {} THEN <<>>
    ELSE LET m == CHOOSE x \in S : \A y \in S : x <= y
         IN  <<m>> \o SortedList(S \ {m})

\* the page numbers as retrieved, neither deduplicated nor sorted
SourcePagesAsRetrieved(cs) == [j \in DOMAIN cs |-> cs[j].page_number]

SourcePages(cs) == SortedList({cs[j].page_number : j \in DOMAIN cs})

ChunkTexts(cs) == [j \in DOMAIN cs |-> cs[j].text]

\* features[name] = value on an insertion-ordered dict
DictSet(d, name, value) ==
    IF \E j \in DOMAIN d : d[j][1] = name
    THEN [j \in DOMAIN d |-> IF d[j][1] = name THEN <<name, value>> ELSE d[j]]
    ELSE Append(d, <<name, value>>)

DictKeys(d) == [j \in DOMAIN d |-> d[j][1]]

NoParse == [exc |-> "not called", value |-> PyNone, confidence |-> 0]

\* the vector store, empty and not called yet
NoCall == [op |-> "none", doc_id |-> "", chunks |-> <<>>, ret |-> "none", exc |-> "none"]

StoreIdle ==
    /\ collection = {}
    /\ store_before = {}
    /\ store_call = NoCall
NoResult == [kind |-> "none", exc |-> "none", features |-> <<>>]

\* chunk_document is not running
ChunkerIdle ==
    /\ cpc = "idle"
    /\ input_text = <<>>
    /\ chunk_config = [chunk_size |-> 800, chunk_overlap |-> 100, min_chunk_size |-> 50]
    /\ text = <<>>
    /\ sentences = <<>>
    /\ sentence_start_positions = <<>>
    /\ current_chunk_sentences = <<>>
    /\ current_chunk_length = 0
    /\ i = 0
    /\ chunk_index = 0
    /\ start = 0
    /\ chunks = <<>>
    /\ config_exc = "none"
    /\ emitted = <<>>
    /\ call_ids = <<>>

Init ==
    /\ ChunkerIdle
    /\ StoreIdle
    /\ pc = "start"
    /\ doc_exists \in BOOLEAN
    /\ feature_schema \in Schemas
    /\ threshold \in Thresholds
    /\ idx = 1
    /\ features = <<>>
    /\ search_results = <<>>
    /\ attempt = 0
    /\ gen_log = <<>>
    /\ search_calls = 0
    /\ search_exc = "none"
    /\ feature_exc = "none"
    /\ response = <<>>
    /\ data_type = "string"
    /\ parsed = NoParse
    /\ result = NoResult
    /\ retrieved = <<>>
    /\ answers = <<>>
    /\ first_features = <<>>
    /\ run = 1

\* CheckDocument without the document_exists test
CheckDocumentSkipped ==
    /\ pc = "start"
    /\ pc' = "loop"
    /\ UNCHANGED <<answers, first_features, run, retrieved>>
    /\ UNCHANGED <<doc_exists, feature_schema, threshold, idx, features, search_results,
                   attempt, gen_log, search_calls, search_exc, feature_exc, response,
                   data_type, parsed, result>>
    /\ UNCHANGED chunkVars
    /\ UNCHANGED storeVars

\* lines 106-108: verify the document exists
CheckDocument ==
    /\ pc = "start"
    /\ IF ~doc_exists
       THEN /\ pc' = "raised"
            /\ result' = [kind |-> "raised", exc |-> "ValueError", features |-> <<>>]
       ELSE /\ pc' = "loop"
            /\ UNCHANGED result
    /\ UNCHANGED <<answers, first_features, run, retrieved>>
    /\ UNCHANGED <<doc_exists, feature_schema, threshold, idx, features, search_results,
                   attempt, gen_log, search_calls, search_exc, feature_exc, response,
                   data_type, parsed>>
    /\ UNCHANGED chunkVars
    /\ UNCHANGED storeVars

\* line 113: the for loop takes the next feature of the schema and calls
\* extract_single_feature, whose locals start fresh
NextFeature ==
    /\ pc = "loop"
    /\ idx <= Len(feature_schema)
    /\ pc' = "search"
    /\ gen_log' = <<>>
    /\ response' = <<>>
    /\ data_type' = feature_schema[idx].data_type
    /\ parsed' = NoParse
    /\ search_exc' = "none"
    /\ feature_exc' = "none"
    /\ retrieved' = <<>>
    /\ UNCHANGED <<answers, first_features, run>>
    /\ UNCHANGED <<doc_exists, feature_schema, threshold, idx, features, search_results,
                   attempt, search_calls, result>>
    /\ UNCHANGED chunkVars
    /\ UNCHANGED storeVars

\* lines 126-137: the loop is over, the ExtractionResult is returned
ReturnResult ==
    /\ pc = "loop"
    /\ idx > Len(feature_schema)
    /\ pc' = "returned"
    /\ result' = [kind |-> "returned", exc |-> "none", features |-> features]
    /\ UNCHANGED <<answers, first_features, run, retrieved>>
    /\ UNCHANGED <<doc_exists, feature_schema, threshold, idx, features, search_results,
                   attempt, gen_log, search_calls, search_exc, feature_exc, response,
                   data_type, parsed>>
    /\ UNCHANGED chunkVars
    /\ UNCHANGED storeVars

\* EndFeature without the try/except: an exception leaves extract_features
EndFeatureAborts(exc, fv) ==
    /\ features' = IF exc = "none" THEN DictSet(features, feature_schema[idx].name, fv)
                   ELSE features
    /\ idx' = IF exc = "none" THEN idx + 1 ELSE idx
    /\ pc' = IF exc = "none" THEN "loop" ELSE "raised"
    /\ search_results' = <<>>
    /\ attempt' = 0
    /\ feature_exc' = exc
    /\ result' = IF exc = "none" THEN result
                 ELSE [kind |-> "raised", exc |-> exc, features |-> <<>>]

\* EndFeature with an except clause that records nothing for the feature
EndFeatureSkips(exc, fv) ==
    /\ features' = IF exc = "none" THEN DictSet(features, feature_schema[idx].name, fv)
                   ELSE features
    /\ idx' = idx + 1
    /\ pc' = "loop"
    /\ search_results' = <<>>
    /\ attempt' = 0
    /\ feature_exc' = exc
    /\ UNCHANGED result

\* EndFeature with an except clause that starts the features dict afresh
EndFeatureClears(exc, fv) ==
    /\ features' = IF exc = "none" THEN DictSet(features, feature_schema[idx].name, fv)
                   ELSE <<<<feature_schema[idx].name, NullFeatureValue>>>>
    /\ idx' = idx + 1
    /\ pc' = "loop"
    /\ search_results' = <<>>
    /\ attempt' = 0
    /\ feature_exc' = exc
    /\ UNCHANGED result

\* lines 114-124: extract_single_feature returned fv, or raised exc, for the
\* feature at idx; the loop goes on to the next feature
EndFeature(exc, fv) ==
    /\ features' = DictSet(features, feature_schema[idx].name,
                           IF exc = "none" THEN fv ELSE NullFeatureValue)
    /\ idx' = idx + 1
    /\ pc' = "loop"
    /\ search_results' = <<>>
    /\ attempt' = 0
    /\ feature_exc' = exc
    /\ UNCHANGED result

\* `if not search_results` that never finds the list empty
NoChunksNever(cs) == FALSE

\* line 165: if not search_results
NoChunks(cs) == cs = <<>>

\* lines 157-171 for one answer of vector_store.search: retrieve the chunks;
\* none retrieved gives the null value
SearchStep(out) ==
    /\ search_calls' = search_calls + 1
    /\ search_exc' = out.exc
    /\ retrieved' = out.chunks
    /\ IF out.exc # "none"
       THEN EndFeature(out.exc, NullFeatureValue)
       ELSE IF NoChunks(out.chunks)
       THEN EndFeature("none", FeatureValue(PyNone, 0, <<>>, <<>>))
       ELSE /\ search_results' = out.chunks
            /\ attempt' = 1
            /\ pc' = "generate"
            /\ UNCHANGED <<features, idx, result, feature_exc>>
    /\ UNCHANGED <<answers, first_features, run>>
    /\ UNCHANGED <<doc_exists, feature_schema, threshold, gen_log, response, data_type, parsed>>
    /\ UNCHANGED chunkVars
    /\ UNCHANGED storeVars

\* extract_single_feature up to the retrieval, for any answer of the vector store
Search == pc = "search" /\ \E out \in SearchOutcomes : SearchStep(out)

\* tenacity's retry predicate: @retry is given none, so it is the default,
\* retry_if_exception_type(Exception)
RetryIf(kind) == kind \in {"transient", "permanent"}

\* stop_after_attempt that stops one attempt late
StopAfterAttemptLate(n) == n > MaxAttempts

\* stop=stop_after_attempt(3)
StopAfterAttempt(n) == n >= MaxAttempts

\* lines 184-195: parse the response and build the FeatureValue
FinishFeature(resp) ==
    /\ response' = resp
    /\ parsed' = ParseExtractionResponse(resp, feature_schema[idx].data_type, threshold)
    /\ EndFeature(parsed'.exc, FeatureValue(parsed'.value, parsed'.confidence,
                                            ChunkTexts(search_results),
                                            SourcePages(search_results)))

\* lines 223-251 and 179-182: one invocation of the generator under @retry,
\* for one thing the generator can do
GenerateStep(out) ==
    /\ gen_log' = Append(gen_log, out.kind)
    /\ IF out.kind = "response"
       THEN FinishFeature(out.resp)
       ELSE IF RetryIf(out.kind) /\ ~StopAfterAttempt(attempt)
       THEN /\ attempt' = attempt + 1
            /\ UNCHANGED <<pc, idx, features, result, search_results, feature_exc,
                           response, parsed>>
       ELSE /\ EndFeature(IF RetryIf(out.kind) THEN "RetryError" ELSE out.kind,
                          NullFeatureValue)
            /\ UNCHANGED <<response, parsed>>
    /\ UNCHANGED <<answers, first_features, run, retrieved>>
    /\ UNCHANGED <<doc_exists, feature_schema, threshold, search_calls, search_exc, data_type>>
    /\ UNCHANGED chunkVars
    /\ UNCHANGED storeVars

Generate == pc = "generate" /\ \E out \in GenOutcomes : GenerateStep(out)

Next == CheckDocument \/ NextFeature \/ ReturnResult \/ Search \/ Generate

Spec == Init /\ [][Next]_vars

(***************************************************************************)
(* extract_features run twice on one document, with the answers of the     *)
(* vector store and of the generator fixed per feature, and the features   *)
(* of the schema in any order in the second run                            *)
(***************************************************************************)
Transient == [kind |-> "transient", resp |-> <<>>]
Permanent == [kind |-> "permanent", resp |-> <<>>]
Respond(r) == [kind |-> "response", resp |-> r]

\* what the generator does at the first, second and third attempt for a feature
GenScripts ==
    { <<Respond(ObjectText(PyStr(Name), PyFloat(95)))>>,
      <<Respond(ObjectText(PyStr(Grouped), PyFloat(50)))>>,
      <<Respond(<<Atom(PyList)>>)>>,
      <<Transient, Respond(ObjectText(PyStr(Name), PyFloat(30)))>>,
      <<Transient, Permanent, Transient>> }

\* the fixed answers of the collaborators for one feature
AnswerSet ==
    {[search |-> so, gen |-> <<>>] : so \in {o \in SearchOutcomes : o.chunks = <<>>}}
    \cup {[search |-> so, gen |-> g] :
            so \in {o \in SearchOutcomes : Len(o.chunks) = 3}, g \in GenScripts}

\* the orders the features of a schema can be processed in
Orders(sch) ==
    {q \in [DOMAIN sch -> {sch[j] : j \in DOMAIN sch}] :
        {q[j] : j \in DOMAIN q} = {sch[j] : j \in DOMAIN sch}}

OrderInit ==
    /\ ChunkerIdle
    /\ StoreIdle
    /\ pc = "start"
    /\ doc_exists = TRUE
    /\ feature_schema \in Schemas
    /\ threshold \in Thresholds
    /\ idx = 1
    /\ features = <<>>
    /\ search_results = <<>>
    /\ attempt = 0
    /\ gen_log = <<>>
    /\ search_calls = 0
    /\ search_exc = "none"
    /\ feature_exc = "none"
    /\ response = <<>>
    /\ data_type = "string"
    /\ parsed = NoParse
    /\ result = NoResult
    /\ retrieved = <<>>
    /\ answers \in [{feature_schema[j].name : j \in DOMAIN feature_schema} -> AnswerSet]
    /\ first_features = <<>>
    /\ run = 1

\* extract_single_feature up to the retrieval, the vector store giving its
\* answer for the feature
ScriptedSearch == pc = "search" /\ SearchStep(answers[feature_schema[idx].name].search)

\* one invocation of the generator, which does what it does for the feature
\* at this attempt
ScriptedGenerate ==
    pc = "generate" /\ GenerateStep(answers[feature_schema[idx].name].gen[attempt])

\* extract_features is called again for the same document, the features of
\* the schema in another order
SecondRun ==
    /\ pc = "returned"
    /\ run = 1
    /\ run' = 2
    /\ first_features' = result.features
    /\ feature_schema' \in Orders(feature_schema)
    /\ pc' = "start"
    /\ idx' = 1
    /\ features' = <<>>
    /\ search_results' = <<>>
    /\ attempt' = 0
    /\ gen_log' = <<>>
    /\ search_exc' = "none"
    /\ feature_exc' = "none"
    /\ response' = <<>>
    /\ data_type' = "string"
    /\ parsed' = NoParse
    /\ result' = NoResult
    /\ retrieved' = <<>>
    /\ UNCHANGED <<doc_exists, threshold, search_calls, answers>>
    /\ UNCHANGED chunkVars
    /\ UNCHANGED storeVars

OrderNext ==
    \/ CheckDocument \/ NextFeature \/ ReturnResult
    \/ ScriptedSearch \/ ScriptedGenerate \/ SecondRun

OrderSpec == OrderInit /\ [][OrderNext]_vars

(***************************************************************************)
(* _parse_extraction_response on its own: one call on any response         *)
(***************************************************************************)
Decimal == <<"1", "2", ".", "5">>
Half == <<"0", ".", "5">>
Mixed == <<"1", ",", "2", "x">>
\* the grave accent (U+0060), a character no TLA+ string can hold
Grave == "grave"
Quoting == <<"x", "}", Grave, Grave, Grave, "y">>

\* what a generator can put in "value" and in "confidence"
ValueMembers ==
    {Absent, PyNone, PyStr(Name), PyStr(Grouped), PyStr(Decimal), PyStr(Mixed),
     PyInt(7), PyFloat(1250), PyList}
ConfidenceMembers ==
    {Absent, PyNone, PyFloat(0 - 20), PyFloat(0), PyFloat(30), PyFloat(50), PyFloat(95),
     PyFloat(100), PyFloat(150), PyInt(1), PyStr(Half), PyStr(Name), PyList}

\* the ways a generator lays a JSON text out in its response
Layouts(json) ==
    { json,
      <<Ws>> \o json \o <<Ws>>,
      <<Fence, JsonWord, Ws>> \o json \o <<Ws, Fence>>,
      <<Fence, Ws>> \o json \o <<Ws, Fence>>,
      <<Fence, JsonWord, Ws>> \o json,
      <<Text, Ws, Fence, JsonWord, Ws>> \o json \o <<Ws, Fence>> }

AllResponses ==
    UNION {Layouts(ObjectText(v, c)) : v \in ValueMembers, c \in ConfidenceMembers}
    \cup UNION {Layouts(<<Atom(v)>>) : v \in {PyList, PyStr(Name), PyInt(5), PyNone}}
    \cup Layouts(QuotingObjectText(PyStr(Quoting), PyFloat(95)))
    \cup { <<>>, <<Text>>, <<Text, Ws, Text>>, <<LBrace, RBrace>>, <<LBrace, Text>>,
           <<Fence, Fence>> }

ParseInit ==
    /\ ChunkerIdle
    /\ StoreIdle
    /\ pc = "parse"
    /\ response \in AllResponses
    /\ data_type \in DataTypes
    /\ threshold \in Thresholds
    /\ parsed = NoParse
    /\ doc_exists = TRUE
    /\ feature_schema = <<>>
    /\ idx = 1
    /\ features = <<>>
    /\ search_results = <<>>
    /\ attempt = 0
    /\ gen_log = <<>>
    /\ search_calls = 0
    /\ search_exc = "none"
    /\ feature_exc = "none"
    /\ result = NoResult
    /\ retrieved = <<>>
    /\ answers = <<>>
    /\ first_features = <<>>
    /\ run = 1

\* one call of _parse_extraction_response(response, feature)
ParseCall ==
    /\ pc = "parse"
    /\ parsed' = ParseExtractionResponse(response, data_type, threshold)
    /\ pc' = "parsed"
    /\ UNCHANGED <<answers, first_features, run, retrieved>>
    /\ UNCHANGED <<doc_exists, feature_schema, threshold, idx, features, search_results,
                   attempt, gen_log, search_calls, search_exc, feature_exc, response,
                   data_type, result>>
    /\ UNCHANGED chunkVars
    /\ UNCHANGED storeVars

ParseNext == ParseCall

ParseSpec == ParseInit /\ [][ParseNext]_vars

(***************************************************************************)
(* chunk_document                                                          *)
(*                                                                         *)
(* A text is a sequence of characters of four classes: "A" an upper-case   *)
(* letter, "." a sentence terminator (. ! ?), " " and "\n" whitespace, and  *)
(* "a" any other character.  Positions count from 0, as in Python.         *)
(***************************************************************************)
MaxUnits == 3
MaxChunks == 7

ChunkSizeMin == 100
ChunkSizeMax == 2000
ChunkOverlapMax == 500
MinChunkSizeMin == 10

Terminators == {"."}
UpperCase == {"A"}

\* ChunkConfig's field constraints and validate_overlap
ValidChunkConfig(c) ==
    /\ c.chunk_size >= ChunkSizeMin /\ c.chunk_size <= ChunkSizeMax
    /\ c.chunk_overlap >= 0 /\ c.chunk_overlap <= ChunkOverlapMax
    /\ c.min_chunk_size >= MinChunkSizeMin
    /\ ~(c.chunk_overlap >= c.chunk_size)
    /\ ~(c.min_chunk_size > c.chunk_size)

\* some arguments ChunkConfig(...) is called with
ChunkConfigArgs ==
    [chunk_size : {100}, chunk_overlap : {0, 50, 100, 600}, min_chunk_size : {10, 100, 120}]

\* the configurations a ChunkConfig can be constructed with, among these
ChunkConfigs == {c \in ChunkConfigArgs : ValidChunkConfig(c)}

Repeat(c, n) == [j \in 1..n |-> c]

\* a sentence of n characters: a capital, other characters, a full stop
Sentence(n) == <<"A">> \o Repeat("a", n - 2) \o <<".">>

\* 8 characters with neither a capital at the start nor a terminator at the end
Fragment == Repeat("a", 8)

Units == {Sentence(n) : n \in {8, 45, 60, 130}} \cup {Fragment}
Gaps == {<<" ">>, <<" ", "\n">>}

\* the texts made of 1..n units with a gap between each two
RECURSIVE UnitTexts(_)
UnitTexts(n) ==
    IF n = 0 THEN {}
    ELSE Units \cup UnitTexts(n - 1)
         \cup {t \o g \o u : t \in UnitTexts(n - 1), g \in Gaps, u \in Units}

\* the texts chunk_document is called with: none, whitespace only, and unit
\* texts with and without whitespace around them
InputTexts ==
    {<<>>, <<" ", "\n">>}
    \cup UnitTexts(MaxUnits)
    \cup {<<"\n">> \o t \o <<" ">> : t \in UnitTexts(MaxUnits)}

\* Python's t[a:b] for 0 <= a
Slice(t, a, b) == SubSeq(t, a + 1, IF b > Len(t) THEN Len(t) ELSE b)

\* the last index (from 1) of the run of whitespace that starts at index s
RECURSIVE RunEnd(_, _)
RunEnd(t, s) == IF s + 1 <= Len(t) /\ t[s + 1] \in Whitespace THEN RunEnd(t, s + 1) ELSE s

\* the matches of (?<=[.!?])\s+(?=[A-Z]) in t, as <<first, last>> indexes from 1
BoundaryMatches(t) ==
    {<<s, RunEnd(t, s)>> : s \in {x \in 2..Len(t) :
        /\ t[x] \in Whitespace
        /\ t[x - 1] \in Terminators
        /\ RunEnd(t, x) + 1 <= Len(t)
        /\ t[RunEnd(t, x) + 1] \in UpperCase}}

\* re.split(sentence_pattern, t): the pieces between the matches, from index
\* from on; the empty match of (?<=[.!?])$ leaves an empty last piece
RECURSIVE SplitFrom(_, _, _)
SplitFrom(t, from, matches) ==
    IF matches = {}
    THEN IF Len(t) >= 1 /\ t[Len(t)] \in Terminators /\ from <= Len(t)
         THEN <<SubSeq(t, from, Len(t)), <<>>>>
         ELSE <<SubSeq(t, from, Len(t))>>
    ELSE LET m == CHOOSE x \in matches : \A y \in matches : x[1] <= y[1]
         IN  <<SubSeq(t, from, m[1] - 1)>> \o SplitFrom(t, m[2] + 1, matches \ {m})

\* _split_into_sentences(text)
SplitIntoSentences(t) ==
    LET pieces == SplitFrom(t, 1, BoundaryMatches(t))
        kept == SelectSeq(pieces, LAMBDA x : Strip(x) # <<>>)
    IN  [j \in DOMAIN kept |-> Strip(kept[j])]

\* the first position p >= from with t[p:p+len(sub)] = sub, or -1
Scan(t, sub, from) ==
    LET hits == {p \in from..(Len(t) - Len(sub)) :
                    /\ sub # <<>> => t[p + 1] = sub[1]
                    /\ Slice(t, p, p + Len(sub)) = sub}
    IN  IF hits = {} THEN 0 - 1 ELSE CHOOSE p \in hits : \A q \in hits : p <= q

\* text.find(sentence) without search_start: the first occurrence anywhere
FindAnywhere(t, sub, from) == Scan(t, sub, 0)

\* text.find(sentence, search_start)
Find(t, sub, from) == Scan(t, sub, from)

\* the loop of _get_sentence_positions, from sentence j (from 1) on
RECURSIVE PositionsFrom(_, _, _, _)
PositionsFrom(t, sents, j, search_start) ==
    IF j > Len(sents) THEN <<>>
    ELSE LET found == Find(t, sents[j], search_start)
             pos == IF found = 0 - 1 THEN search_start ELSE found
         IN  <<pos>> \o PositionsFrom(t, sents, j + 1, pos + Len(sents[j]))

\* _get_sentence_positions(text, sentences)
GetSentencePositions(t, sents) == PositionsFrom(t, sents, 1, 0)

\* " ".join(sents)
RECURSIVE Join(_)
Join(sents) ==
    IF sents = <<>> THEN <<>>
    ELSE IF Len(sents) = 1 THEN sents[1]
    ELSE sents[1] \o <<" ">> \o Join(Tail(sents))

\* a Chunk; doc_id and page_number are the caller's, the same in every chunk
Chunk(t, index, start_pos, end_pos) ==
    [text |-> t, chunk_index |-> index, start_pos |-> start_pos, end_pos |-> end_pos]

\* the overlap loop, lines 129-136: walk the sentences backward from index j
RECURSIVE OverlapFrom(_, _, _, _, _)
OverlapFrom(sents, j, overlap_sentences, overlap_length, chunk_overlap) ==
    IF j >= 1 /\ overlap_length + Len(sents[j]) <= chunk_overlap
    THEN OverlapFrom(sents, j - 1, <<sents[j]>> \o overlap_sentences,
                     overlap_length + Len(sents[j]) + 1, chunk_overlap)
    ELSE [sentences |-> overlap_sentences, length |-> overlap_length]

\* Overlap that keeps the last sentence whatever its length
OverlapKeepsLast(sents, chunk_overlap) ==
    [sentences |-> <<sents[Len(sents)]>>, length |-> Len(sents[Len(sents)]) + 1]

\* lines 128-139: the overlap seed of a chunk made of sents
Overlap(sents, chunk_overlap) == OverlapFrom(sents, Len(sents), <<>>, 0, chunk_overlap)

EngineIdle ==
    /\ pc = "idle"
    /\ doc_exists = TRUE
    /\ feature_schema = <<>>
    /\ threshold = 50
    /\ idx = 1
    /\ features = <<>>
    /\ search_results = <<>>
    /\ attempt = 0
    /\ gen_log = <<>>
    /\ search_calls = 0
    /\ search_exc = "none"
    /\ feature_exc = "none"
    /\ response = <<>>
    /\ data_type = "string"
    /\ parsed = NoParse
    /\ result = NoResult
    /\ retrieved = <<>>
    /\ answers = <<>>
    /\ first_features = <<>>
    /\ run = 1

ChunkInit ==
    /\ EngineIdle
    /\ StoreIdle
    /\ cpc = "construct"
    /\ input_text \in InputTexts
    /\ chunk_config \in ChunkConfigArgs
    /\ text = <<>>
    /\ sentences = <<>>
    /\ sentence_start_positions = <<>>
    /\ current_chunk_sentences = <<>>
    /\ current_chunk_length = 0
    /\ i = 0
    /\ chunk_index = 0
    /\ start = 0
    /\ chunks = <<>>
    /\ config_exc = "none"
    /\ emitted = <<>>
    /\ call_ids = <<>>

\* ChunkConfig(...): pydantic checks the field constraints, then runs
\* validate_overlap, and reports a failure of either as its ValidationError;
\* chunk_document is called with a constructed configuration only
ConstructChunkConfig ==
    /\ cpc = "construct"
    /\ IF ValidChunkConfig(chunk_config)
       THEN cpc' = "call" /\ config_exc' = "none"
       ELSE cpc' = "raised" /\ config_exc' = "ValidationError"
    /\ UNCHANGED <<emitted, call_ids, input_text, chunk_config, text, sentences,
                   sentence_start_positions, current_chunk_sentences,
                   current_chunk_length, i, chunk_index, start, chunks>>
    /\ UNCHANGED engineVars
    /\ UNCHANGED storeVars

\* ReturnEmpty with the test "not text" alone: a whitespace-only text is stripped
\* to the empty text and returned as one short chunk
ReturnEmptyOnlyIfEmpty ==
    /\ cpc = "call"
    /\ Strip(input_text) = <<>>
    /\ IF input_text = <<>>
       THEN UNCHANGED <<text, chunks>>
       ELSE text' = <<>> /\ chunks' = <<Chunk(<<>>, 0, 0, 0)>>
    /\ cpc' = "done"
    /\ UNCHANGED <<emitted, config_exc, call_ids, input_text, chunk_config, sentences,
                   sentence_start_positions, current_chunk_sentences,
                   current_chunk_length, i, chunk_index, start>>
    /\ UNCHANGED engineVars
    /\ UNCHANGED storeVars

\* lines 50-52: empty or whitespace-only text gives no chunk
ReturnEmpty ==
    /\ cpc = "call"
    /\ Strip(input_text) = <<>>
    /\ cpc' = "done"
    /\ UNCHANGED <<emitted, config_exc, call_ids, input_text, chunk_config, text, sentences, sentence_start_positions,
                   current_chunk_sentences, current_chunk_length, i, chunk_index, start,
                   chunks>>
    /\ UNCHANGED engineVars
    /\ UNCHANGED storeVars

\* ReturnShort without line 54: the text is not stripped
ReturnShortUnstripped ==
    /\ cpc = "call"
    /\ Strip(input_text) # <<>>
    /\ Len(Strip(input_text)) < chunk_config.min_chunk_size
    /\ text' = input_text
    /\ chunks' = <<Chunk(text', 0, 0, Len(text'))>>
    /\ cpc' = "done"
    /\ UNCHANGED <<emitted, config_exc, call_ids, input_text, chunk_config, sentences,
                   sentence_start_positions, current_chunk_sentences,
                   current_chunk_length, i, chunk_index, start>>
    /\ UNCHANGED engineVars
    /\ UNCHANGED storeVars

\* lines 54-68: a text shorter than min_chunk_size is one chunk
ReturnShort ==
    /\ cpc = "call"
    /\ Strip(input_text) # <<>>
    /\ Len(Strip(input_text)) < chunk_config.min_chunk_size
    /\ text' = Strip(input_text)
    /\ chunks' = <<Chunk(text', 0, 0, Len(text'))>>
    /\ cpc' = "done"
    /\ UNCHANGED <<emitted, config_exc, call_ids, input_text, chunk_config, sentences, sentence_start_positions,
                   current_chunk_sentences, current_chunk_length, i, chunk_index, start>>
    /\ UNCHANGED engineVars
    /\ UNCHANGED storeVars

\* lines 70-101: split into sentences; one sentence is one chunk or goes to
\* _chunk_by_character, several go to the packing loop
SplitText ==
    /\ cpc = "call"
    /\ Strip(input_text) # <<>>
    /\ Len(Strip(input_text)) >= chunk_config.min_chunk_size
    /\ LET stripped == Strip(input_text)
           sents == SplitIntoSentences(stripped)
       IN  /\ sentences' = sents
           /\ IF Len(sents) = 1
              THEN IF Len(sents[1]) > chunk_config.chunk_size
                   THEN /\ text' = sents[1]
                        /\ cpc' = "by_character"
                        /\ chunks' = <<>>
                        /\ UNCHANGED sentence_start_positions
                   ELSE /\ text' = stripped
                        /\ chunks' = <<Chunk(sents[1], 0, 0, Len(sents[1]))>>
                        /\ cpc' = "done"
                        /\ UNCHANGED sentence_start_positions
              ELSE /\ text' = stripped
                   /\ sentence_start_positions' = GetSentencePositions(stripped, sents)
                   /\ chunks' = <<>>
                   /\ cpc' = "pack"
    /\ UNCHANGED <<emitted, config_exc, call_ids, input_text, chunk_config, current_chunk_sentences, current_chunk_length,
                   i, chunk_index, start>>
    /\ UNCHANGED engineVars
    /\ UNCHANGED storeVars

\* WouldExceed with the pending length alone, the next sentence not counted
WouldExceedPendingOnly == current_chunk_length > chunk_config.chunk_size

\* line 108
WouldExceed == current_chunk_length + Len(sentences[i + 1]) > chunk_config.chunk_size

\* lines 109-139: the pending sentences become a chunk, the overlap seeds the next
EmitChunk ==
    /\ cpc = "pack"
    /\ i < Len(sentences)
    /\ WouldExceed /\ current_chunk_sentences # <<>>
    /\ Len(chunks) < MaxChunks
    /\ LET chunk_text == Join(current_chunk_sentences)
           start_pos == sentence_start_positions[i - Len(current_chunk_sentences) + 1]
           seed == Overlap(current_chunk_sentences, chunk_config.chunk_overlap)
       IN  /\ chunks' = Append(chunks, Chunk(chunk_text, chunk_index, start_pos,
                                             start_pos + Len(chunk_text)))
           /\ chunk_index' = chunk_index + 1
           /\ current_chunk_sentences' = seed.sentences
           /\ current_chunk_length' = seed.length
    /\ emitted' = Append(emitted, [sentences |-> current_chunk_sentences, i |-> i])
    /\ UNCHANGED <<config_exc, call_ids, cpc, input_text, chunk_config, text, sentences, sentence_start_positions,
                   i, start>>
    /\ UNCHANGED engineVars
    /\ UNCHANGED storeVars

\* lines 140-144: the sentence joins the pending chunk
AddSentence ==
    /\ cpc = "pack"
    /\ i < Len(sentences)
    /\ ~(WouldExceed /\ current_chunk_sentences # <<>>)
    /\ current_chunk_sentences' = Append(current_chunk_sentences, sentences[i + 1])
    /\ current_chunk_length' = current_chunk_length + Len(sentences[i + 1]) + 1
    /\ i' = i + 1
    /\ UNCHANGED <<emitted, config_exc, call_ids, cpc, input_text, chunk_config, text, sentences, sentence_start_positions,
                   chunk_index, start, chunks>>
    /\ UNCHANGED engineVars
    /\ UNCHANGED storeVars

\* FinishPacking without lines 147-162: the pending sentences are dropped
FinishPackingDropsPending ==
    /\ cpc = "pack"
    /\ ~(i < Len(sentences))
    /\ cpc' = "done"
    /\ UNCHANGED <<emitted, config_exc, call_ids, input_text, chunk_config, text, sentences,
                   sentence_start_positions, current_chunk_sentences,
                   current_chunk_length, i, chunk_index, start, chunks>>
    /\ UNCHANGED engineVars
    /\ UNCHANGED storeVars

\* lines 146-164: the loop is over; the pending sentences are the last chunk
FinishPacking ==
    /\ cpc = "pack"
    /\ ~(i < Len(sentences))
    /\ IF current_chunk_sentences # <<>>
       THEN LET chunk_text == Join(current_chunk_sentences)
                start_pos == sentence_start_positions[
                                 Len(sentences) - Len(current_chunk_sentences) + 1]
            IN  chunks' = Append(chunks, Chunk(chunk_text, chunk_index, start_pos,
                                               start_pos + Len(chunk_text)))
       ELSE UNCHANGED chunks
    /\ emitted' = IF current_chunk_sentences # <<>>
                  THEN Append(emitted, [sentences |-> current_chunk_sentences, i |-> i])
                  ELSE emitted
    /\ cpc' = "done"
    /\ UNCHANGED <<config_exc, call_ids, input_text, chunk_config, text, sentences, sentence_start_positions,
                   current_chunk_sentences, current_chunk_length, i, chunk_index, start>>
    /\ UNCHANGED engineVars
    /\ UNCHANGED storeVars

\* CharacterWindow with the start moved forward by chunk_size, the overlap forgotten
CharacterWindowNoOverlap ==
    /\ cpc = "by_character"
    /\ start < Len(text)
    /\ Len(chunks) < MaxChunks
    /\ LET end == IF start + chunk_config.chunk_size < Len(text)
                  THEN start + chunk_config.chunk_size ELSE Len(text)
       IN  chunks' = Append(chunks, Chunk(Slice(text, start, end), chunk_index, start, end))
    /\ chunk_index' = chunk_index + 1
    /\ start' = start + chunk_config.chunk_size
    /\ UNCHANGED <<emitted, config_exc, call_ids, cpc, input_text, chunk_config, text, sentences,
                   sentence_start_positions, current_chunk_sentences,
                   current_chunk_length, i>>
    /\ UNCHANGED engineVars
    /\ UNCHANGED storeVars

\* lines 241-259: one window of _chunk_by_character
CharacterWindow ==
    /\ cpc = "by_character"
    /\ start < Len(text)
    /\ Len(chunks) < MaxChunks
    /\ LET end == IF start + chunk_config.chunk_size < Len(text)
                  THEN start + chunk_config.chunk_size ELSE Len(text)
       IN  chunks' = Append(chunks, Chunk(Slice(text, start, end), chunk_index, start, end))
    /\ chunk_index' = chunk_index + 1
    /\ start' = start + chunk_config.chunk_size - chunk_config.chunk_overlap
    /\ UNCHANGED <<emitted, config_exc, call_ids, cpc, input_text, chunk_config, text, sentences, sentence_start_positions,
                   current_chunk_sentences, current_chunk_length, i>>
    /\ UNCHANGED engineVars
    /\ UNCHANGED storeVars

\* line 261: _chunk_by_character returns
FinishWindows ==
    /\ cpc = "by_character"
    /\ ~(start < Len(text))
    /\ cpc' = "done"
    /\ UNCHANGED <<emitted, config_exc, call_ids, input_text, chunk_config, text, sentences, sentence_start_positions,
                   current_chunk_sentences, current_chunk_length, i, chunk_index, start,
                   chunks>>
    /\ UNCHANGED engineVars
    /\ UNCHANGED storeVars

ChunkNext ==
    \/ ConstructChunkConfig
    \/ ReturnEmpty \/ ReturnShort \/ SplitText
    \/ EmitChunk \/ AddSentence \/ FinishPacking
    \/ CharacterWindow \/ FinishWindows

ChunkSpec == ChunkInit /\ [][ChunkNext]_vars

(***************************************************************************)
(* The chunk_ids of two chunk_document calls for two pages of one document, *)
(* run one after the other or interleaved.  A call counts its chunks in the *)
(* local chunk_index, from 0, and names each chunk by _generate_chunk_id;   *)
(* the calls share nothing but the uuid generator.                          *)
(***************************************************************************)
MaxIds == 3

Pages == {1, 2}

\* values of uuid.uuid4().hex[:8]: some of the 16^8 strings of 8 hex digits
Uuids == {"1a2b3c4d", "5e6f7081", "92a3b4c5"}

\* f"{doc_id}_chunk_{chunk_index}_{uuid.uuid4().hex[:8]}"
GenerateChunkId(doc_id, index, hex) == <<doc_id, "_chunk_", index, "_", hex>>

IdInit ==
    /\ EngineIdle
    /\ StoreIdle
    /\ cpc = "idle"
    /\ input_text = <<>>
    /\ chunk_config = [chunk_size |-> 800, chunk_overlap |-> 100, min_chunk_size |-> 50]
    /\ text = <<>>
    /\ sentences = <<>>
    /\ sentence_start_positions = <<>>
    /\ current_chunk_sentences = <<>>
    /\ current_chunk_length = 0
    /\ i = 0
    /\ chunk_index = 0
    /\ start = 0
    /\ chunks = <<>>
    /\ config_exc = "none"
    /\ emitted = <<>>
    /\ call_ids = [p \in Pages |-> <<>>]

\* the call for page p makes its next chunk: the id is generated from the
\* call's chunk_index, which is then incremented
AppendChunk(p) ==
    /\ Len(call_ids[p]) < MaxIds
    /\ \E hex \in Uuids :
         call_ids' = [call_ids EXCEPT ![p] = Append(@, GenerateChunkId("doc", Len(@), hex))]
    /\ UNCHANGED <<emitted, cpc, input_text, chunk_config, text, sentences, sentence_start_positions,
                   current_chunk_sentences, current_chunk_length, i, chunk_index, start,
                   chunks, config_exc>>
    /\ UNCHANGED engineVars
    /\ UNCHANGED storeVars

IdNext == \E p \in Pages : AppendChunk(p)

IdSpec == IdInit /\ [][IdNext]_vars


(***************************************************************************)
(* ChromaVectorStore: add_document, delete_document and update_document on *)
(* one collection.  A record of the collection is a chunk's id and the     *)
(* doc_id of its metadata; the text, the embedding and the other metadata  *)
(* of a chunk travel with it unchanged.  ChromaDB keeps one record per id. *)
(***************************************************************************)
MaxBatch == 2

DocIds == {"doc_001", "doc_002"}
ChunkIds == {"chunk_1", "chunk_2"}

\* a doc_id argument that is None or ""
NoDocId == ""

\* a Chunk as the store reads it: chunk.chunk_id and chunk.doc_id
StoreChunk(chunk_id, doc_id) == [chunk_id |-> chunk_id, doc_id |-> doc_id]

StoreChunks == {StoreChunk(c, d) : c \in ChunkIds, d \in DocIds}

\* the chunks arguments: lists of up to MaxBatch chunks
ChunkLists == UNION {[1..n -> StoreChunks] : n \in 0..MaxBatch}

\* what the backend does during a call: nothing wrong, or collection.delete
\* raises, or embedding_model.encode raises
Faults == {"none", "delete", "encode"}

\* what collection.add does with an id the collection already holds: ChromaDB
\* raises in some versions and leaves the old record in place in others
OnExisting == {"raise", "ignore"}

StoreReturns(col, ret) == [col |-> col, ret |-> ret, exc |-> "none"]
StoreRaises(col) == [col |-> col, ret |-> "none", exc |-> "VectorStoreError"]

\* collection.get(where={"doc_id": doc_id})
CollectionGet(col, doc_id) == {r \in col : r.doc_id = doc_id}

\* document_exists(doc_id)
DocumentExists(col, doc_id) == doc_id # NoDocId /\ CollectionGet(col, doc_id) # {}

\* get_document_chunks(doc_id): the chunks of the document, or VectorStoreError
GetDocumentChunks(col, doc_id) ==
    IF doc_id = NoDocId \/ CollectionGet(col, doc_id) = {}
    THEN StoreRaises(col)
    ELSE StoreReturns(col, CollectionGet(col, doc_id))

\* the ids of a list of chunks
IdsOf(new_chunks) == {new_chunks[j].chunk_id : j \in DOMAIN new_chunks}

\* collection.add(ids=..., metadatas=...): the metadata doc_id of a record is
\* chunk.doc_id; ids repeated in the call are refused
CollectionAdd(col, new_chunks, document_id, on_existing) ==
    IF Cardinality(IdsOf(new_chunks)) < Len(new_chunks) THEN StoreRaises(col)
    ELSE IF on_existing = "raise" /\ IdsOf(new_chunks) \cap {r.chunk_id : r \in col} # {}
    THEN StoreRaises(col)
    ELSE StoreReturns(
             col \cup {StoreChunk(new_chunks[j].chunk_id, new_chunks[j].doc_id) :
                          j \in {k \in DOMAIN new_chunks :
                                    new_chunks[k].chunk_id \notin {r.chunk_id : r \in col}}},
             document_id)

\* add_document(chunks, doc_id)
AddDocument(col, new_chunks, doc_id, fault, on_existing) ==
    IF new_chunks = <<>> THEN StoreRaises(col)
    ELSE IF fault = "encode" THEN StoreRaises(col)
    ELSE CollectionAdd(col, new_chunks,
                       IF doc_id # NoDocId THEN doc_id ELSE new_chunks[1].doc_id,
                       on_existing)

\* delete_document(doc_id)
DeleteDocument(col, doc_id, fault) ==
    IF doc_id = NoDocId THEN StoreRaises(col)
    ELSE IF ~DocumentExists(col, doc_id) THEN StoreReturns(col, "False")
    ELSE IF fault = "delete" THEN StoreRaises(col)
    ELSE StoreReturns(col \ CollectionGet(col, doc_id), "True")

\* update_document, lines 343-346: what add_document did is what the update
\* does, with True for the document id
UpdateAdded(added) == IF added.exc # "none" THEN added ELSE StoreReturns(added.col, "True")

\* update_document, lines 340-343: delete_document has been called
UpdateDeleted(deleted, doc_id, new_chunks, fault, on_existing) ==
    IF deleted.exc # "none" THEN deleted
    ELSE UpdateAdded(AddDocument(deleted.col, new_chunks, doc_id, fault, on_existing))

\* update_document(doc_id, chunks)
UpdateDocument(col, doc_id, new_chunks, fault, on_existing) ==
    IF doc_id = NoDocId THEN StoreRaises(col)
    ELSE IF new_chunks = <<>> THEN StoreRaises(col)
    ELSE IF ~DocumentExists(col, doc_id) THEN StoreReturns(col, "False")
    ELSE UpdateDeleted(DeleteDocument(col, doc_id, fault), doc_id, new_chunks, fault, on_existing)

StoreInit ==
    /\ EngineIdle
    /\ ChunkerIdle
    /\ StoreIdle

\* a call op(doc_id, chunks) that did what done says
StoreStep(op, doc_id, new_chunks, done) ==
    /\ collection' = done.col
    /\ store_before' = collection
    /\ store_call' = [op |-> op, doc_id |-> doc_id, chunks |-> new_chunks,
                      ret |-> done.ret, exc |-> done.exc]
    /\ UNCHANGED engineVars
    /\ UNCHANGED chunkVars

CallAddDocument ==
    \E new_chunks \in ChunkLists, doc_id \in DocIds \cup {NoDocId},
       fault \in Faults, on_existing \in OnExisting :
        StoreStep("add_document", doc_id, new_chunks,
                  AddDocument(collection, new_chunks, doc_id, fault, on_existing))

CallDeleteDocument ==
    \E doc_id \in DocIds \cup {NoDocId}, fault \in Faults :
        StoreStep("delete_document", doc_id, <<>>, DeleteDocument(collection, doc_id, fault))

CallUpdateDocument ==
    \E new_chunks \in ChunkLists, doc_id \in DocIds \cup {NoDocId},
       fault \in Faults, on_existing \in OnExisting :
        StoreStep("update_document", doc_id, new_chunks,
                  UpdateDocument(collection, doc_id, new_chunks, fault, on_existing))

StoreNext == CallAddDocument \/ CallDeleteDocument \/ CallUpdateDocument

StoreSpec == StoreInit /\ [][StoreNext]_vars

(***************************************************************************)
(* Properties of extract_features (checked under Spec)                     *)
(***************************************************************************)
SchemaNames == [j \in DOMAIN feature_schema |-> feature_schema[j].name]

\* the entries of a dict other than the one of name, in order
Others(d, name) == SelectSeq(d, LAMBDA e : e[1] # name)

HasEntry(d, name, value) == \E j \in DOMAIN d : d[j] = <<name, value>>

\* C3: a retrieval error raised by search while a feature is processed is
\* fatal: extract_features raises and returns no ExtractionResult.
C3_RetrievalErrorIsFatal ==
    search_exc # "none" => (pc = "raised" /\ result.kind = "raised")

\* C4: only transient failures are retried: after a permanent error the
\* generator is not invoked again for the feature, and the error leaves the
\* retried generation step.
C4_PermanentErrorNotRetried ==
    \A j \in 1..Len(gen_log) :
        gen_log[j] = "permanent" => (j = Len(gen_log) /\ pc # "generate")

\* C5: the generator is invoked at most 3 times per feature and never after
\* its first success; after 3 transient failures the feature gets the null
\* FeatureValue and the loop goes on to the next feature.
C5_ThreeAttemptsThenNull ==
    /\ Len(gen_log) <= 3
    /\ \A j \in 1..Len(gen_log) :
         gen_log[j] = "response" => (j = Len(gen_log) /\ pc # "generate")
    /\ gen_log = <<"transient", "transient", "transient">> =>
         /\ pc \in {"loop", "returned"}
         /\ result.kind # "raised"
         /\ idx >= 2
         /\ HasEntry(features, feature_schema[idx - 1].name, NullFeatureValue)

C5_Witness ==
    /\ gen_log = <<"transient", "transient", "transient">>
    /\ pc = "loop"
    /\ idx <= Len(feature_schema)

\* C7: an exception raised while one feature is processed becomes the null
\* FeatureValue of that feature only: the batch goes on, the entries of the
\* other features are untouched, and the next feature starts from the same
\* state as after a feature that did not fail.
C7_FailureIsolated ==
    [][(pc \in {"search", "generate"} /\ feature_exc' # "none") =>
         /\ pc' = "loop"
         /\ idx' = idx + 1
         /\ result' = result
         /\ HasEntry(features', feature_schema[idx].name, NullFeatureValue)
         /\ Others(features', feature_schema[idx].name)
              = Others(features, feature_schema[idx].name)
         /\ search_results' = <<>>
         /\ attempt' = 0]_vars

C7_Witness ==
    /\ feature_exc # "none"
    /\ Len(features) = 2
    /\ features[1][2].value # PyNone
    /\ features[2][2] = NullFeatureValue

\* C8: for a document in the index the returned ExtractionResult holds one
\* FeatureValue for each key of the schema and no other key, in schema order,
\* whichever features failed.
C8_OneValuePerSchemaFeature ==
    pc = "returned" =>
        /\ result.kind = "returned"
        /\ DictKeys(result.features) = SchemaNames

C8_Witness ==
    /\ pc = "returned"
    /\ Len(feature_schema) >= 2
    /\ feature_exc # "none"
    /\ result.features[1][2].value # PyNone

\* C9: for a document that is not in the index extract_features raises
\* before any search or generation call, and returns no ExtractionResult.
C9_MissingDocumentRaisesFirst ==
    ~doc_exists =>
        /\ pc \in {"start", "raised"}
        /\ pc = "raised" => result.kind = "raised"
        /\ result.kind # "returned"
        /\ search_calls = 0
        /\ gen_log = <<>>

C9_Witness ==
    /\ ~doc_exists
    /\ pc = "raised"
    /\ Len(feature_schema) >= 1

(***************************************************************************)
(* Properties of _parse_extraction_response (checked under ParseSpec)      *)
(***************************************************************************)
\* what json.loads gives for the response, and the float of its confidence
Loaded == JsonLoads(Unfence(response))
LoadedConfidence == FloatOf(DictGet(Loaded.confidence, PyFloat(0)))
LoadedValue == DictGet(Loaded.value, PyNone)

\* the response parses into a value and a confidence
Parsable == Loaded.exc = "none" /\ Loaded.isdict /\ LoadedConfidence.exc = "none"

\* C6: parsing never raises: a response that cannot be parsed into a value
\* and a confidence gives (None, 0.0).
C6_ParseNeverRaises ==
    pc = "parsed" =>
        /\ parsed.exc = "none"
        /\ ~Parsable => parsed = Returns(PyNone, 0)

\* C10: a clamped confidence c below the threshold gives (None, c), the
\* confidence retained; at or above the threshold the value is kept.
C10_ThresholdKeepsConfidence ==
    (pc = "parsed" /\ Parsable) =>
        LET c == Clamp(LoadedConfidence.val.n)
        IN  /\ parsed.exc = "none"
            /\ parsed.confidence = c
            /\ c < threshold => parsed.value = PyNone
            /\ c >= threshold =>
                 /\ parsed.value = ConvertValueType(LoadedValue, data_type).val
                 /\ parsed.value = PyNone <=> LoadedValue = PyNone

C10_Witness ==
    /\ pc = "parsed"
    /\ Parsable
    /\ LoadedValue # PyNone
    /\ threshold = 50
    /\ parsed = Returns(PyNone, 30)

(***************************************************************************)
(* Properties of chunk_document (checked under ChunkSpec)                  *)
(***************************************************************************)
\* C1: greedy sentence packing terminates: it goes on until all sentences are
\* consumed and returns a finite list.  The loop's test and its branch read
\* only i, current_chunk_sentences and current_chunk_length (the sentences and
\* the configuration never change), so the loop terminates only if every
\* iteration changes one of the three.
C1_PackingTerminates ==
    [][(cpc = "pack" /\ cpc' = "pack") =>
         <<i', current_chunk_sentences', current_chunk_length'>>
           # <<i, current_chunk_sentences, current_chunk_length>>]_vars

\* C2: every chunk, on any path, has 0 <= start_pos < end_pos <= len(stripped
\* text), and start_pos is non-decreasing along the list.
C2_PositionsInRange ==
    \A j \in DOMAIN chunks :
        /\ 0 <= chunks[j].start_pos
        /\ chunks[j].start_pos < chunks[j].end_pos
        /\ chunks[j].end_pos <= Len(Strip(input_text))
        /\ j > 1 => chunks[j - 1].start_pos <= chunks[j].start_pos

C2_Witness ==
    /\ cpc = "done"
    /\ Len(sentences) >= 3
    /\ Len(chunks) >= 2
    /\ chunks[Len(chunks)].start_pos > chunks[1].start_pos
    /\ chunks[Len(chunks)].end_pos < Len(text)

(***************************************************************************)
(* More properties of extract_features (checked under Spec)                *)
(***************************************************************************)
InUnitInterval(c) == 0 <= c /\ c <= 100

\* C11: every confidence _parse_extraction_response returns, and the
\* confidence of every FeatureValue of the features being built and of every
\* ExtractionResult, lies in [0,1], whatever number the generator reported.
C11_ConfidenceInUnitInterval ==
    /\ parsed.exc = "none" => InUnitInterval(parsed.confidence)
    /\ \A j \in DOMAIN features : InUnitInterval(features[j][2].confidence)
    /\ \A j \in DOMAIN result.features : InUnitInterval(result.features[j][2].confidence)

\* a result whose first feature was reported with a negative confidence and
\* whose second with one above 1
C11_Witness ==
    /\ pc = "returned"
    /\ Len(result.features) = 2
    /\ result.features[1][2].value # PyNone
    /\ result.features[1][2].confidence = 0
    /\ Parsable
    /\ LoadedConfidence.val.n > 100
    /\ result.features[2][2].confidence = 100

\* C12: a search that returns no chunk makes extract_single_feature return
\* FeatureValue(None, 0.0, [], []) at once: the generator is not invoked and
\* the loop goes on.
C12_EmptyRetrievalReturnsNull ==
    [][(pc = "search" /\ search_exc' = "none" /\ retrieved' = <<>>) =>
         /\ pc' = "loop"
         /\ feature_exc' = "none"
         /\ HasEntry(features', feature_schema[idx].name, FeatureValue(PyNone, 0, <<>>, <<>>))
         /\ gen_log' = <<>>
         /\ attempt' = 0]_vars

C12_Witness ==
    /\ pc = "loop"
    /\ idx = 2
    /\ search_calls = 1
    /\ search_exc = "none"
    /\ retrieved = <<>>
    /\ gen_log = <<>>
    /\ features = <<<<feature_schema[1].name, FeatureValue(PyNone, 0, <<>>, <<>>)>>>>

\* features[name]
EntryOf(d, name) == d[CHOOSE j \in DOMAIN d : d[j][1] = name][2]

\* the FeatureValue the latest extract_single_feature call returned
Returned == EntryOf(features, feature_schema[idx - 1].name)

\* C20: in every FeatureValue extract_single_feature returns, source_chunks
\* holds the texts of the retrieved chunks, one per chunk and in retrieval
\* order, and source_pages their page numbers, ascending and without
\* duplicates.
C20_SourcesFollowRetrieval ==
    (pc \in {"loop", "returned"} /\ idx >= 2 /\ feature_exc = "none") =>
        /\ Len(Returned.source_chunks) = Len(retrieved)
        /\ \A j \in DOMAIN retrieved : Returned.source_chunks[j] = retrieved[j].text
        /\ \A a, b \in DOMAIN Returned.source_pages :
             a < b => Returned.source_pages[a] < Returned.source_pages[b]
        /\ {Returned.source_pages[j] : j \in DOMAIN Returned.source_pages}
             = {retrieved[j].page_number : j \in DOMAIN retrieved}

\* three chunks retrieved, from pages 2, 1 and 2
C20_Witness ==
    /\ pc = "loop"
    /\ idx = 2
    /\ feature_exc = "none"
    /\ Len(retrieved) = 3
    /\ retrieved[1].page_number > retrieved[2].page_number
    /\ Returned.value # PyNone
    /\ Returned.source_pages = <<1, 2>>

(***************************************************************************)
(* More properties of chunk_document (checked under ChunkSpec)             *)
(***************************************************************************)
\* the index of the last character of the word that starts at index a
WordEnd(t, a) ==
    LET ends == {b \in a..Len(t) : b = Len(t) \/ t[b + 1] \in Whitespace}
    IN  CHOOSE b \in ends : \A c \in ends : b <= c

\* set(t.split()): the maximal runs of characters that are not whitespace
Words(t) ==
    {SubSeq(t, a, WordEnd(t, a)) :
        a \in {b \in 1..Len(t) : t[b] \notin Whitespace /\ (b = 1 \/ t[b - 1] \in Whitespace)}}

\* C13: with chunk_overlap > 0, every two adjacent chunks of a returned list
\* of more than one chunk have a sentence, or a word, in common.
C13_AdjacentChunksShare ==
    (cpc = "done" /\ chunk_config.chunk_overlap > 0 /\ Len(chunks) > 1) =>
        \A j \in 1..(Len(chunks) - 1) :
            Words(chunks[j].text) \cap Words(chunks[j + 1].text) # {}

\* line 259: what start moves forward by
WindowStep == chunk_config.chunk_size - chunk_config.chunk_overlap

\* chunk_document went to _chunk_by_character: one sentence, longer than chunk_size
ByCharacter ==
    /\ cpc \in {"by_character", "done"}
    /\ Len(sentences) = 1
    /\ Len(sentences[1]) > chunk_config.chunk_size

\* C14: for a single sentence longer than chunk_size the windows start at 0,
\* each next one WindowStep > 0 after the previous one and before the end of
\* the text (so there are finitely many), each holds at most chunk_size
\* characters of the text, and at the return the last one ends at len(text)
\* and every character is in some window.
C14_WindowsCoverText ==
    ByCharacter =>
        /\ WindowStep > 0
        /\ start = Len(chunks) * WindowStep
        /\ \A j \in DOMAIN chunks :
             /\ chunks[j].start_pos = (j - 1) * WindowStep
             /\ chunks[j].start_pos < chunks[j].end_pos
             /\ chunks[j].end_pos <= Len(text)
             /\ chunks[j].end_pos - chunks[j].start_pos <= chunk_config.chunk_size
             /\ chunks[j].text = Slice(text, chunks[j].start_pos, chunks[j].end_pos)
        /\ cpc = "done" =>
             /\ chunks # <<>>
             /\ chunks[Len(chunks)].end_pos = Len(text)
             /\ \A p \in 0..(Len(text) - 1) :
                  \E j \in DOMAIN chunks : chunks[j].start_pos <= p /\ p < chunks[j].end_pos

C14_Witness ==
    /\ ByCharacter
    /\ cpc = "done"
    /\ chunk_config.chunk_overlap = 50
    /\ Len(chunks) = 3
    /\ chunks[2].start_pos = 50
    /\ chunks[3].end_pos = Len(text)

\* the arguments break chunk_overlap < chunk_size or min_chunk_size <= chunk_size
BreaksConfigInvariant(c) ==
    c.chunk_overlap >= c.chunk_size \/ c.min_chunk_size > c.chunk_size

\* C15: constructing a ChunkConfig with chunk_overlap >= chunk_size, or with
\* min_chunk_size > chunk_size, raises ConfigurationError, and no chunk is
\* produced with it.
C15_InvalidConfigRaisesConfigurationError ==
    (cpc # "construct" /\ BreaksConfigInvariant(chunk_config)) =>
        /\ cpc = "raised"
        /\ config_exc = "ConfigurationError"
        /\ chunks = <<>>

(***************************************************************************)
(* Properties of the chunk_ids (checked under IdSpec)                      *)
(***************************************************************************)
\* C16: the chunk_ids produced for one document are pairwise distinct,
\* within a call and across the calls for its pages, interleaved or not.
C16_ChunkIdsDistinct ==
    \A p, q \in Pages :
        \A a \in DOMAIN call_ids[p], b \in DOMAIN call_ids[q] :
            (p # q \/ a # b) => call_ids[p][a] # call_ids[q][b]

(***************************************************************************)
(* Properties of two runs of extract_features (checked under OrderSpec)    *)
(***************************************************************************)
\* a features dict as a mapping: its <<name, FeatureValue>> entries, order apart
AsMap(d) == {d[j] : j \in DOMAIN d}

\* C17: with the answers of the collaborators fixed per feature, the mapping
\* from feature name to FeatureValue that extract_features returns is the
\* same whatever the order the features are processed in.
C17_OrderIndependent ==
    (run = 2 /\ pc = "returned") => AsMap(result.features) = AsMap(first_features)

\* two runs in opposite orders, one feature extracted and the other failed
C17_Witness ==
    /\ run = 2
    /\ pc = "returned"
    /\ Len(first_features) = 2
    /\ DictKeys(result.features) # DictKeys(first_features)
    /\ \E j \in DOMAIN result.features : result.features[j][2].value # PyNone
    /\ feature_exc = "RetryError"

(***************************************************************************)
(* More properties of _parse_extraction_response (checked under ParseSpec) *)
(***************************************************************************)
\* the call parsed a value that is not None with a confidence at or above
\* the threshold, so the value went to _convert_value_type
Survived ==
    /\ pc = "parsed"
    /\ Parsable
    /\ LoadedValue.k # "none"
    /\ Clamp(LoadedConfidence.val.n) >= threshold

\* C18: a value that survived thresholding and cannot be converted to the
\* declared data_type is returned, without an exception, as the string
\* representation of the value the generator gave.
C18_CoercionFailureKeepsOriginal ==
    (Survived /\ ConvertTry(LoadedValue, data_type).out.exc # "none") =>
        /\ parsed.exc = "none"
        /\ parsed.value = PyStr(StrOf(LoadedValue))

\* the number a value denotes, in hundredths: a JSON number denotes itself,
\* a str the decimal numeral left when its thousands separators are removed
Denotes(v) == CASE v.k = "str" -> FloatOfStr(RemoveCommas(v.s))
                [] v.k = "int" -> Ret(PyFloat(100 * v.n))
                [] v.k = "float" -> Ret(v)
                [] OTHER -> Raise("TypeError")

\* C19: for data_type number, a value that denotes a number is returned as a
\* number equal to it: an int when it is integral, a float of the same value
\* when it is not.
C19_NumberCoercionExact ==
    (Survived /\ data_type = "number" /\ Denotes(LoadedValue).exc = "none") =>
        /\ parsed.exc = "none"
        /\ parsed.value.k \in {"int", "float"}
        /\ parsed.value.k = "int" => 100 * parsed.value.n = Denotes(LoadedValue).val.n
        /\ parsed.value.k = "float" => parsed.value.n = Denotes(LoadedValue).val.n
        /\ Denotes(LoadedValue).val.n % 100 # 0 => parsed.value.k = "float"

(***************************************************************************)
(* Short and empty texts (checked under ChunkSpec)                         *)
(***************************************************************************)
\* the text argument, stripped, is not empty and shorter than min_chunk_size
ShortText ==
    /\ Strip(input_text) # <<>>
    /\ Len(Strip(input_text)) < chunk_config.min_chunk_size

\* C21: for a text whose stripped form is not empty and shorter than
\* min_chunk_size, chunk_document returns exactly one chunk, whose text is
\* the stripped text, with start_pos 0 and end_pos the length of that text.
C21_ShortTextIsOneChunk ==
    (cpc = "done" /\ ShortText) =>
        /\ Len(chunks) = 1
        /\ chunks[1].text = Strip(input_text)
        /\ chunks[1].start_pos = 0
        /\ chunks[1].end_pos = Len(Strip(input_text))

\* a text of two sentences with whitespace around it, shorter than min_chunk_size
C21_Witness ==
    /\ cpc = "done"
    /\ ShortText
    /\ input_text # Strip(input_text)
    /\ Len(SplitIntoSentences(Strip(input_text))) = 2
    /\ Len(chunks) = 1
    /\ chunks[1].end_pos = Len(text)

\* C22: for an empty or whitespace-only text chunk_document returns an empty
\* list: no chunk is emitted at any point of the call.
C22_EmptyTextGivesNoChunk ==
    Strip(input_text) = <<>> =>
        /\ chunks = <<>>
        /\ cpc \in {"construct", "raised", "call", "done"}

\* a whitespace-only text, the call returned
C22_Witness ==
    /\ cpc = "done"
    /\ input_text # <<>>
    /\ Strip(input_text) = <<>>
    /\ chunks = <<>>

(***************************************************************************)
(* Markdown code fences (checked under ParseSpec)                          *)
(***************************************************************************)
\* json is the text of a JSON object, from its { to its }
IsJsonObject(json) ==
    /\ json # <<>>
    /\ json[1].t = "lbrace"
    /\ json[Len(json)].t = "rbrace"
    /\ JsonLoads(json).exc = "none"
    /\ JsonLoads(json).isdict

\* r is ```json or ```, whitespace, some text, whitespace, ```
FenceWrapped(r) ==
    /\ Len(r) >= 5
    /\ r[1].t = "fence"
    /\ r[Len(r)].t = "fence"
    /\ r[Len(r) - 1].t = "ws"
    /\ \/ r[2].t = "json" /\ r[3].t = "ws"
       \/ r[2].t = "ws"

\* the text between the fences of a wrapped response
Inner(r) == SubSeq(r, IF r[2].t = "json" THEN 4 ELSE 3, Len(r) - 2)

\* the response is a JSON object wrapped in a Markdown code fence
Wrapped == FenceWrapped(response) /\ IsJsonObject(Inner(response))

\* C23: a response that is a JSON object wrapped in a Markdown code fence
\* (```json or bare ```) parses to the same (value, confidence) as the same
\* JSON object without the fence.
C23_FencedParsesAsUnwrapped ==
    (pc = "parsed" /\ Wrapped) =>
        parsed = ParseExtractionResponse(Inner(response), data_type, threshold)

(***************************************************************************)
(* Properties of update_document (checked under StoreSpec)                 *)
(***************************************************************************)
\* the latest call was update_document(doc_id, chunks)
Updating == store_call.op = "update_document"

\* the chunks of the latest call, as records of a collection
NewRecords == {store_call.chunks[j] : j \in DOMAIN store_call.chunks}

\* C24: after update_document(doc_id, chunks) returns True, the store holds
\* for doc_id exactly the new chunks and none of the old ones:
\* document_exists(doc_id) is true and get_document_chunks(doc_id) returns
\* the new chunks.  Called on a doc_id that is not in the store, it returns
\* False and adds nothing.
C24_UpdateReplacesChunks ==
    Updating =>
        /\ store_call.ret = "True" =>
             /\ DocumentExists(collection, store_call.doc_id)
             /\ GetDocumentChunks(collection, store_call.doc_id).exc = "none"
             /\ GetDocumentChunks(collection, store_call.doc_id).ret = NewRecords
        /\ (store_call.exc = "none" /\ ~DocumentExists(store_before, store_call.doc_id)) =>
             /\ store_call.ret = "False"
             /\ collection = store_before

\* C30: update_document is all-or-nothing: when it raises, the store still
\* holds the document's old chunks, so get_document_chunks(doc_id) returns
\* what it returned before the call.
C30_UpdateAllOrNothing ==
    (Updating /\ store_call.exc # "none") =>
        /\ GetDocumentChunks(collection, store_call.doc_id).exc
             = GetDocumentChunks(store_before, store_call.doc_id).exc
        /\ GetDocumentChunks(collection, store_call.doc_id).ret
             = GetDocumentChunks(store_before, store_call.doc_id).ret

(***************************************************************************)
(* Properties of greedy sentence packing (checked under ChunkSpec)         *)
(***************************************************************************)
\* C25: every chunk of the packing loop made of two or more sentences has a
\* text of at most chunk_size characters; a chunk's text is longer than
\* chunk_size only when the chunk is one sentence that is itself longer than
\* chunk_size.
C25_PackedChunksFitChunkSize ==
    \A j \in DOMAIN emitted :
        /\ Len(emitted[j].sentences) >= 2 =>
             Len(chunks[j].text) <= chunk_config.chunk_size
        /\ Len(chunks[j].text) > chunk_config.chunk_size =>
             /\ Len(emitted[j].sentences) = 1
             /\ Len(emitted[j].sentences[1]) > chunk_config.chunk_size

\* a chunk of two sentences, then one of a single sentence longer than chunk_size
C25_Witness ==
    /\ cpc = "done"
    /\ Len(emitted) = 2
    /\ Len(emitted[1].sentences) = 2
    /\ Len(chunks[1].text) > 50
    /\ Len(emitted[2].sentences) = 1
    /\ Len(chunks[2].text) > chunk_config.chunk_size

\* a is a suffix of b
IsSuffix(a, b) == Len(a) <= Len(b) /\ a = SubSeq(b, Len(b) - Len(a) + 1, Len(b))

\* C26: the overlap seed taken after a chunk is emitted is a suffix of that
\* chunk's sentences whose joined length, with single spaces, is at most
\* chunk_overlap; the seed sentences are not read again from the sentence
\* stream: the stream index i never moves backward.
C26_SeedIsBoundedSuffix ==
    [][/\ i' >= i
       /\ (cpc = "pack" /\ cpc' = "pack" /\ Len(emitted') > Len(emitted)) =>
            /\ i' = i
            /\ IsSuffix(current_chunk_sentences', current_chunk_sentences)
            /\ Len(Join(current_chunk_sentences')) <= chunk_config.chunk_overlap]_vars

\* a returned list whose second chunk starts with the seed, the last sentence
\* of the first chunk, and goes on with a new sentence
C26_Witness ==
    /\ cpc = "done"
    /\ chunk_config.chunk_overlap = 50
    /\ Len(emitted) = 2
    /\ Len(emitted[1].sentences) = 2
    /\ Len(emitted[2].sentences) = 2
    /\ emitted[2].sentences[1] = emitted[1].sentences[2]
    /\ emitted[2].i = emitted[1].i + 1

\* C27: every chunk of the packing loop contains at least one sentence that
\* is in no earlier chunk: a chunk made of overlap-seed sentences only is
\* never emitted, at least one new sentence is consumed between two emits.
C27_EachChunkHasNewSentence ==
    \A j \in 2..Len(emitted) : emitted[j].i > emitted[j - 1].i

\* the index (from 1) in sentences of the first sentence of an emitted chunk
FirstSentence(e) == e.i - Len(e.sentences) + 1

Backed(fv) ==
    fv.value # PyNone => (fv.confidence >= threshold /\ fv.source_chunks # <<>>)

\* C29: every FeatureValue with a non-null value, in the features being
\* built and in a returned ExtractionResult, has confidence >=
\* confidence_threshold and at least one source chunk; a feature whose
\* extraction ended in an error, in a response that is no JSON, or in an
\* empty retrieval has value None.
C29_NonNullValuesAreBacked ==
    /\ \A j \in DOMAIN features : Backed(features[j][2])
    /\ \A j \in DOMAIN result.features : Backed(result.features[j][2])
    /\ (pc \in {"loop", "returned"} /\ idx >= 2) =>
         /\ feature_exc # "none" => Returned = NullFeatureValue
         /\ retrieved = <<>> => Returned.value = PyNone
         /\ (parsed.exc = "none" /\ Loaded.exc # "none") => Returned.value = PyNone

\* a result with a value kept at a confidence equal to the threshold, from
\* three chunks, and a feature that failed after three attempts
C29_Witness ==
    /\ pc = "returned"
    /\ threshold = 50
    /\ Len(result.features) = 2
    /\ result.features[1][2].value # PyNone
    /\ result.features[1][2].confidence = 50
    /\ Len(result.features[1][2].source_chunks) = 3
    /\ feature_exc = "RetryError"
    /\ result.features[2][2] = NullFeatureValue

====
